---- MODULE Spec2Model ----
(***************************************************************************)
(* Model of sample.py: the e-waste image analyser.                         *)
(*                                                                         *)
(* JSON values and Python values are tagged records.  Strings are real     *)
(* strings; the confidence score is kept in thousandths (870 is 0.87).     *)
(* Glyphs of the report are written in ASCII.                              *)
(***************************************************************************)
EXTENDS Integers, Sequences, FiniteSets, TLC

(* ------------------------------ bounds --------------------------------- *)

\* at most this many top-level keys of a response differ from BaseResponse
MaxDev == 1
\* datetime.now() returns a second in 1..MaxClock
MaxClock == 2

(* --------------------------- JSON values ------------------------------- *)

JStr(s) == [t |-> "str", s |-> s]
JNum(n, isint) == [t |-> "num", n |-> n, isint |-> isint]
JBool(b) == [t |-> "bool", b |-> b]
JNull == [t |-> "null"]
JArr(a) == [t |-> "arr", a |-> a]
JObj(o) == [t |-> "obj", o |-> o]

(* -------------------------- Python values ------------------------------ *)

PStr(s) == [t |-> "str", s |-> s]
PFloat(n) == [t |-> "float", n |-> n]
PBool(b) == [t |-> "bool", b |-> b]
PNone == [t |-> "None"]
PList(a) == [t |-> "list", a |-> a]
PEnum(cls, name) == [t |-> "enum", cls |-> cls, name |-> name]
PModel(cls, f) == [t |-> "model", cls |-> cls, f |-> f]
PDict(d) == [t |-> "dict", d |-> d]

(* ------------------------------ enums ---------------------------------- *)

ObjectCategory ==
  << [name |-> "SMARTPHONE", value |-> "Smartphone"],
     [name |-> "TABLET", value |-> "Tablet"],
     [name |-> "LAPTOP", value |-> "Laptop"],
     [name |-> "DESKTOP_COMPUTER", value |-> "Desktop Computer"],
     [name |-> "MONITOR", value |-> "Monitor"],
     [name |-> "TELEVISION", value |-> "Television"],
     [name |-> "GAMING_CONSOLE", value |-> "Gaming Console"],
     [name |-> "SMARTWATCH", value |-> "Smartwatch"],
     [name |-> "EARBUDS", value |-> "Earbuds/Headphones"],
     [name |-> "CAMERA", value |-> "Digital Camera"],
     [name |-> "CIRCUIT_BOARD", value |-> "Circuit Board"],
     [name |-> "HARD_DRIVE", value |-> "Hard Drive"],
     [name |-> "RAM", value |-> "RAM Module"],
     [name |-> "PROCESSOR", value |-> "CPU/Processor"],
     [name |-> "GRAPHICS_CARD", value |-> "Graphics Card"],
     [name |-> "POWER_SUPPLY", value |-> "Power Supply Unit"],
     [name |-> "SSD", value |-> "Solid State Drive"],
     [name |-> "MOTHERBOARD", value |-> "Motherboard"],
     [name |-> "LITHIUM_BATTERY", value |-> "Lithium-ion Battery"],
     [name |-> "ALKALINE_BATTERY", value |-> "Alkaline Battery"],
     [name |-> "LEAD_ACID_BATTERY", value |-> "Lead-acid Battery"],
     [name |-> "BUTTON_BATTERY", value |-> "Button Cell Battery"],
     [name |-> "LAPTOP_BATTERY", value |-> "Laptop Battery Pack"],
     [name |-> "PHONE_BATTERY", value |-> "Phone Battery"],
     [name |-> "CABLES", value |-> "Cables/Wires"],
     [name |-> "CHARGER", value |-> "Charger/Adapter"],
     [name |-> "KEYBOARD", value |-> "Keyboard"],
     [name |-> "MOUSE", value |-> "Mouse"],
     [name |-> "USB_DEVICE", value |-> "USB Device/Flash Drive"],
     [name |-> "PRINTER", value |-> "Printer"],
     [name |-> "SCANNER", value |-> "Scanner"],
     [name |-> "ROUTER", value |-> "Router/Modem"],
     [name |-> "SPEAKER", value |-> "Speaker System"],
     [name |-> "MICROWAVE", value |-> "Microwave"],
     [name |-> "MIXED_EWASTE", value |-> "Mixed E-waste"],
     [name |-> "UNKNOWN", value |-> "Unknown Device"] >>

ConditionStatus ==
  << [name |-> "INTACT", value |-> "Intact"],
     [name |-> "BROKEN", value |-> "Broken"],
     [name |-> "PARTIALLY_DAMAGED", value |-> "Partially Damaged"],
     [name |-> "SEVERELY_DAMAGED", value |-> "Severely Damaged"],
     [name |-> "BURNED", value |-> "Burned/Melted"],
     [name |-> "WATER_DAMAGED", value |-> "Water Damaged"] >>

ShredSafety ==
  << [name |-> "SAFE_TO_SHRED", value |-> "Safe to Shred"],
     [name |-> "DO_NOT_SHRED", value |-> "Do Not Shred"],
     [name |-> "REQUIRES_PREPROCESSING",
      value |-> "Requires Preprocessing Before Shredding"] >>

ProcessingMethod ==
  << [name |-> "SHRED", value |-> "Shred"],
     [name |-> "MANUAL_DISASSEMBLY", value |-> "Manual Disassembly"],
     [name |-> "BATTERY_REMOVAL", value |-> "Battery Removal Required"],
     [name |-> "DATA_DESTRUCTION", value |-> "Data Destruction Required"],
     [name |-> "SPECIALIZED_RECYCLING", value |-> "Specialized Recycling"],
     [name |-> "HAZMAT_HANDLING", value |-> "Hazardous Material Handling"] >>

EnumNames == {"ObjectCategory", "ConditionStatus", "ShredSafety", "ProcessingMethod"}

EnumClass(cls) ==
  CASE cls = "ObjectCategory" -> ObjectCategory
    [] cls = "ConditionStatus" -> ConditionStatus
    [] cls = "ShredSafety" -> ShredSafety
    [] cls = "ProcessingMethod" -> ProcessingMethod

\* (variant) the member names instead of the member values
EnumNamesOf(E) == [i \in DOMAIN E |-> E[i].name]

\* [e.value for e in E]
EnumValues(E) == [i \in DOMAIN E |-> E[i].value]

\* E(value): the member whose value is s
EnumHasValue(E, s) == \E i \in DOMAIN E : E[i].value = s
EnumByValue(E, s) == E[CHOOSE i \in DOMAIN E : E[i].value = s]
\* member.value
EnumMember(cls, name) ==
  LET E == EnumClass(cls) IN E[CHOOSE i \in DOMAIN E : E[i].name = name]

(* --------------------------- pydantic models --------------------------- *)

\* a field without a "default" entry is required
HazardousComponents ==
  << [name |-> "has_battery", type |-> "bool"],
     [name |-> "has_mercury", type |-> "bool"],
     [name |-> "has_lead", type |-> "bool"],
     [name |-> "has_capacitors", type |-> "bool"],
     [name |-> "has_toner", type |-> "bool"],
     [name |-> "has_data_storage", type |-> "bool"] >>

EWasteAnalysis ==
  << [name |-> "object_type", type |-> "ObjectCategory"],
     [name |-> "brand", type |-> "Optional[str]", default |-> PNone],
     [name |-> "model", type |-> "Optional[str]", default |-> PNone],
     [name |-> "condition", type |-> "ConditionStatus"],
     [name |-> "shred_safety", type |-> "ShredSafety"],
     [name |-> "safety_notes", type |-> "List[str]", default |-> PList(<< >>)],
     [name |-> "primary_processing", type |-> "ProcessingMethod"],
     [name |-> "preprocessing_steps", type |-> "List[str]", default |-> PList(<< >>)],
     [name |-> "processing_notes", type |-> "str"],
     [name |-> "hazardous_components", type |-> "HazardousComponents"],
     [name |-> "disposal_category", type |-> "str"],
     [name |-> "observations", type |-> "str"],
     [name |-> "confidence_score", type |-> "float"] >>

ModelNames == {"HazardousComponents", "EWasteAnalysis"}

ModelClass(cls) ==
  CASE cls = "HazardousComponents" -> HazardousComponents
    [] cls = "EWasteAnalysis" -> EWasteAnalysis

FieldNames(M) == {M[i].name : i \in DOMAIN M}
RequiredFields(M) == {M[i].name : i \in {j \in DOMAIN M : "default" \notin DOMAIN M[j]}}
FieldOf(M, n) == M[CHOOSE i \in DOMAIN M : M[i].name = n]

ValidationFailed == [ok |-> FALSE]
Validated(v) == [ok |-> TRUE, val |-> v]

RECURSIVE ValidateField(_, _), ValidateModel(_, _)

\* validation of one value against a field's annotation
ValidateField(ty, v) ==
  CASE ty = "bool" ->
         IF v.t = "bool" THEN Validated(PBool(v.b)) ELSE ValidationFailed
    [] ty = "str" ->
         IF v.t = "str" THEN Validated(PStr(v.s)) ELSE ValidationFailed
    [] ty = "Optional[str]" ->
         IF v.t = "null" THEN Validated(PNone)
         ELSE IF v.t = "str" THEN Validated(PStr(v.s)) ELSE ValidationFailed
    [] ty = "List[str]" ->
         IF v.t = "arr" /\ \A i \in DOMAIN v.a : v.a[i].t = "str"
           THEN Validated(PList([i \in DOMAIN v.a |-> PStr(v.a[i].s)]))
           ELSE ValidationFailed
    [] ty = "float" ->
         IF v.t = "num" THEN Validated(PFloat(v.n)) ELSE ValidationFailed
    [] ty \in EnumNames ->
         IF v.t = "str" /\ EnumHasValue(EnumClass(ty), v.s)
           THEN Validated(PEnum(ty, EnumByValue(EnumClass(ty), v.s).name))
           ELSE ValidationFailed
    [] ty \in ModelNames -> ValidateModel(ty, v)

\* (variant) every omitted field is treated as optional
FieldMissingOptional(f) ==
  IF "default" \in DOMAIN f THEN Validated(f.default) ELSE Validated(PNone)

\* a field the input omits: its default, or a failure when it has none
FieldMissing(f) ==
  IF "default" \in DOMAIN f THEN Validated(f.default) ELSE ValidationFailed

\* cls(**obj): unknown keys are ignored
ValidateModel(cls, v) ==
  IF v.t # "obj" THEN ValidationFailed
  ELSE LET M == ModelClass(cls)
           res == [n \in FieldNames(M) |->
                     IF n \in DOMAIN v.o
                       THEN ValidateField(FieldOf(M, n).type, v.o[n])
                       ELSE FieldMissing(FieldOf(M, n))]
       IN IF \A n \in FieldNames(M) : res[n].ok
            THEN Validated(PModel(cls, [n \in FieldNames(M) |-> res[n].val]))
            ELSE ValidationFailed

RECURSIVE model_dict(_)
\* analysis.dict(): nested models become dicts, enum members stay members
model_dict(m) ==
  PDict([k \in DOMAIN m.f |->
           IF m.f[k].t = "model" THEN model_dict(m.f[k]) ELSE m.f[k]])

RECURSIVE json_dump_names(_)
\* (variant) an enum member is written as its name
json_dump_names(p) ==
  CASE p.t = "str" -> JStr(p.s)
    [] p.t = "float" -> JNum(p.n, FALSE)
    [] p.t = "bool" -> JBool(p.b)
    [] p.t = "None" -> JNull
    [] p.t = "enum" -> JStr(p.name)
    [] p.t = "list" -> JArr([i \in DOMAIN p.a |-> json_dump_names(p.a[i])])
    [] p.t = "dict" -> JObj([k \in DOMAIN p.d |-> json_dump_names(p.d[k])])

RECURSIVE json_dump(_)
\* json.dump: a str-mixin enum member is written as its value
json_dump(p) ==
  CASE p.t = "str" -> JStr(p.s)
    [] p.t = "float" -> JNum(p.n, FALSE)
    [] p.t = "bool" -> JBool(p.b)
    [] p.t = "None" -> JNull
    [] p.t = "enum" -> JStr(EnumMember(p.cls, p.name).value)
    [] p.t = "list" -> JArr([i \in DOMAIN p.a |-> json_dump(p.a[i])])
    [] p.t = "dict" -> JObj([k \in DOMAIN p.d |-> json_dump(p.d[k])])

(* ------------------------- create_analysis_schema ---------------------- *)

HazardousSchema ==
  [type |-> "object",
   properties |->
     [has_battery |-> [type |-> "boolean"],
      has_mercury |-> [type |-> "boolean"],
      has_lead |-> [type |-> "boolean"],
      has_capacitors |-> [type |-> "boolean"],
      has_toner |-> [type |-> "boolean"],
      has_data_storage |-> [type |-> "boolean"]],
   required |-> << "has_battery", "has_mercury", "has_lead",
                   "has_capacitors", "has_toner", "has_data_storage" >>]

\* (variant) confidence_score is left out of the required list
create_analysis_schema_lax ==
  [type |-> "object",
   properties |->
     [object_type |-> [type |-> "string", enum |-> EnumValues(ObjectCategory),
                       description |-> "Type of electronic waste"],
      brand |-> [type |-> "string", description |-> "Brand name if visible",
                 nullable |-> TRUE],
      model |-> [type |-> "string", description |-> "Model number if visible",
                 nullable |-> TRUE],
      condition |-> [type |-> "string", enum |-> EnumValues(ConditionStatus),
                     description |-> "Physical condition of the item"],
      shred_safety |-> [type |-> "string", enum |-> EnumValues(ShredSafety),
                        description |-> "Whether item is safe to shred"],
      safety_notes |-> [type |-> "array", items |-> [type |-> "string"],
                        description |-> "Specific safety concerns"],
      primary_processing |-> [type |-> "string", enum |-> EnumValues(ProcessingMethod),
                              description |-> "Primary processing method"],
      preprocessing_steps |-> [type |-> "array", items |-> [type |-> "string"],
                               description |-> "Required preprocessing steps"],
      processing_notes |-> [type |-> "string",
                            description |-> "Detailed processing instructions"],
      hazardous_components |-> HazardousSchema,
      disposal_category |-> [type |-> "string",
                             description |-> "Sorting category for disposal"],
      observations |-> [type |-> "string", description |-> "Additional observations"],
      confidence_score |-> [type |-> "number",
                            description |-> "Confidence score between 0 and 1"]],
   required |-> << "object_type", "condition", "shred_safety", "primary_processing",
                   "processing_notes", "hazardous_components", "disposal_category",
                   "observations" >>]

create_analysis_schema ==
  [type |-> "object",
   properties |->
     [object_type |-> [type |-> "string", enum |-> EnumValues(ObjectCategory),
                       description |-> "Type of electronic waste"],
      brand |-> [type |-> "string", description |-> "Brand name if visible",
                 nullable |-> TRUE],
      model |-> [type |-> "string", description |-> "Model number if visible",
                 nullable |-> TRUE],
      condition |-> [type |-> "string", enum |-> EnumValues(ConditionStatus),
                     description |-> "Physical condition of the item"],
      shred_safety |-> [type |-> "string", enum |-> EnumValues(ShredSafety),
                        description |-> "Whether item is safe to shred"],
      safety_notes |-> [type |-> "array", items |-> [type |-> "string"],
                        description |-> "Specific safety concerns"],
      primary_processing |-> [type |-> "string", enum |-> EnumValues(ProcessingMethod),
                              description |-> "Primary processing method"],
      preprocessing_steps |-> [type |-> "array", items |-> [type |-> "string"],
                               description |-> "Required preprocessing steps"],
      processing_notes |-> [type |-> "string",
                            description |-> "Detailed processing instructions"],
      hazardous_components |-> HazardousSchema,
      disposal_category |-> [type |-> "string",
                             description |-> "Sorting category for disposal"],
      observations |-> [type |-> "string", description |-> "Additional observations"],
      confidence_score |-> [type |-> "number",
                            description |-> "Confidence score between 0 and 1"]],
   required |-> << "object_type", "condition", "shred_safety", "primary_processing",
                   "processing_notes", "hazardous_components", "disposal_category",
                   "observations", "confidence_score" >>]

SeqToSet(q) == {q[i] : i \in DOMAIN q}

RECURSIVE SchemaAccepts(_, _)
\* the constraints a schema dict states: type, nullable, enum, items,
\* required, and the schemas of the properties that are present
SchemaAccepts(s, v) ==
  IF v.t = "null" THEN "nullable" \in DOMAIN s /\ s.nullable
  ELSE CASE s.type = "string" ->
              /\ v.t = "str"
              /\ "enum" \in DOMAIN s => v.s \in SeqToSet(s.enum)
         [] s.type = "number" -> v.t = "num"
         [] s.type = "boolean" -> v.t = "bool"
         [] s.type = "array" ->
              /\ v.t = "arr"
              /\ \A i \in DOMAIN v.a : SchemaAccepts(s.items, v.a[i])
         [] s.type = "object" ->
              /\ v.t = "obj"
              /\ \A k \in SeqToSet(s.required) : k \in DOMAIN v.o
              /\ \A k \in DOMAIN v.o \cap DOMAIN s.properties :
                   SchemaAccepts(s.properties[k], v.o[k])

(* ----------------------- generate_processing_report -------------------- *)

Rule == "----------------------------------------"

\* f"{member}": the member's value before Python 3.11, Class.NAME from 3.11 on
EnumFormats == {"value", "name"}
FormatEnum(p, fmt) ==
  IF fmt = "value" THEN EnumMember(p.cls, p.name).value ELSE p.cls \o "." \o p.name

\* f"{x:.1%}" of a score held in thousandths
FormatPercent(n) == ToString(n \div 10) \o "." \o ToString(n % 10) \o "%"

\* x or 'Not identified'
OrNotIdentified(p) ==
  IF p.t = "None" \/ p.s = "" THEN "Not identified" ELSE p.s

\* '<warning sign> YES' if flag else '<check mark> No'
HazardMark(flag) == IF flag.b THEN "[!] YES" ELSE "[ok] No"

HazardLabels ==
  << [label |-> "Battery", field |-> "has_battery"],
     [label |-> "Mercury", field |-> "has_mercury"],
     [label |-> "Lead", field |-> "has_lead"],
     [label |-> "Capacitors", field |-> "has_capacitors"],
     [label |-> "Toner/Ink", field |-> "has_toner"],
     [label |-> "Data Storage", field |-> "has_data_storage"] >>

\* (variant) the Lead line reads the mercury flag
HazardLinesCopyPaste(hz) ==
  [i \in DOMAIN HazardLabels |->
     HazardLabels[i].label \o ": " \o
       HazardMark(hz.f[IF i = 3 THEN "has_mercury" ELSE HazardLabels[i].field])]

HazardLines(hz) ==
  [i \in DOMAIN HazardLabels |->
     HazardLabels[i].label \o ": " \o HazardMark(hz.f[HazardLabels[i].field])]

\* the report as the sequence of its lines; now is datetime.now()
generate_processing_report(an, now, fmt) ==
  LET f == an.f
      head == << "",
                 "+==========================================================+",
                 "|          E-WASTE SAFETY & PROCESSING REPORT               |",
                 "|                " \o ToString(now) \o "                     |",
                 "+==========================================================+",
                 "",
                 "ITEM IDENTIFICATION",
                 Rule,
                 "Type: " \o FormatEnum(f.object_type, fmt),
                 "Brand: " \o OrNotIdentified(f.brand),
                 "Model: " \o OrNotIdentified(f.model),
                 "Condition: " \o FormatEnum(f.condition, fmt),
                 "Confidence: " \o FormatPercent(f.confidence_score.n),
                 "",
                 "SAFETY ASSESSMENT",
                 Rule,
                 "Shred Safety: " \o FormatEnum(f.shred_safety, fmt),
                 "Disposal Category: " \o f.disposal_category.s >>
      notes == IF f.safety_notes.a # << >>
                 THEN << "", "Safety Concerns:" >> \o
                      [i \in DOMAIN f.safety_notes.a |-> "  * " \o f.safety_notes.a[i].s]
                 ELSE << >>
      hazards == << "", "HAZARDOUS COMPONENTS", Rule >> \o
                 HazardLines(f.hazardous_components)
      processing == << "",
                       "PROCESSING INSTRUCTIONS",
                       Rule,
                       "Primary Method: " \o FormatEnum(f.primary_processing, fmt),
                       "",
                       "Processing Notes:",
                       f.processing_notes.s >>
      pre == IF f.preprocessing_steps.a # << >>
               THEN << "", "Preprocessing Required:" >> \o
                    [i \in DOMAIN f.preprocessing_steps.a |->
                       "  " \o ToString(i) \o ". " \o f.preprocessing_steps.a[i].s]
               ELSE << >>
      obs == << "",
                "ADDITIONAL OBSERVATIONS",
                Rule,
                f.observations.s,
                "",
                "==========================================================" >>
  IN head \o notes \o hazards \o processing \o pre \o obs

(* ------------------------------ inputs --------------------------------- *)

Absent == [t |-> "absent"]

HazardKeys == FieldNames(HazardousComponents)

HazardObj(flags) == JObj([k \in DOMAIN flags |-> JBool(flags[k])])

BaseFlags == [k \in HazardKeys |-> k = "has_battery"]

\* a response the remote model is asked for: every field supplied and valid
BaseResponse ==
  [object_type |-> JStr("Smartphone"),
   brand |-> JStr("Apple"),
   model |-> JStr("iPhone 12"),
   condition |-> JStr("Broken"),
   shred_safety |-> JStr("Do Not Shred"),
   safety_notes |-> JArr(<< JStr("Lithium battery may ignite") >>),
   primary_processing |-> JStr("Battery Removal Required"),
   preprocessing_steps |-> JArr(<< JStr("Remove battery"), JStr("Wipe storage") >>),
   processing_notes |-> JStr("Remove the battery before any shredding."),
   hazardous_components |-> HazardObj(BaseFlags),
   disposal_category |-> JStr("Hazardous"),
   observations |-> JStr("Cracked screen"),
   confidence_score |-> JNum(870, FALSE),
   extra |-> Absent]

ResponseKeys ==
  << "object_type", "brand", "model", "condition", "shred_safety", "safety_notes",
     "primary_processing", "preprocessing_steps", "processing_notes",
     "hazardous_components", "disposal_category", "observations",
     "confidence_score", "extra" >>

\* hazardous_components values other than the base one: every other
\* combination of flags, each flag omitted, a flag of the wrong type, an
\* unknown key, and a value that is not an object
HazardAlternatives ==
  {HazardObj(fl) : fl \in [HazardKeys -> BOOLEAN] \ {BaseFlags}}
    \cup {HazardObj([k \in HazardKeys \ {d} |-> FALSE]) : d \in HazardKeys}
    \cup {JObj([k \in HazardKeys |->
                  IF k = "has_lead" THEN JStr("maybe") ELSE JBool(FALSE)]),
          JObj([k \in HazardKeys \cup {"has_asbestos"} |-> JBool(TRUE)]),
          JStr("none")}

\* the values a key takes when it deviates from BaseResponse; the values of
\* the wrong type are ones no coercion accepts
Alternatives(k) ==
  CASE k = "object_type" -> {Absent, JStr("Laptop"), JStr("Intact")}
    [] k = "brand" -> {Absent, JNull, JStr(""), JArr(<< >>)}
    [] k = "model" -> {Absent, JNull}
    [] k = "condition" -> {Absent, JStr("Intact"), JStr("Shred")}
    [] k = "shred_safety" -> {Absent, JStr("Safe to Shred"), JStr("SAFE_TO_SHRED")}
    [] k = "safety_notes" -> {Absent, JArr(<< >>), JNum(3000, TRUE)}
    [] k = "primary_processing" -> {Absent, JStr("Shred"), JStr("Landfill")}
    [] k = "preprocessing_steps" -> {Absent, JArr(<< >>), JArr(<< JObj(<< >>) >>)}
    [] k = "processing_notes" -> {Absent, JArr(<< >>)}
    [] k = "hazardous_components" -> {Absent} \cup HazardAlternatives
    [] k = "disposal_category" -> {Absent, JStr("Standard")}
    [] k = "observations" -> {Absent, JNull}
    [] k = "confidence_score" -> {Absent, JNum(1000, TRUE), JNum(1500, FALSE), JStr("high")}
    [] k = "extra" -> {JStr("unrequested")}

RECURSIVE Deviations(_, _)
\* the assignments of keys i.. in which at most budget keys deviate
Deviations(i, budget) ==
  IF i > Len(ResponseKeys) THEN {<< >>}
  ELSE LET k == ResponseKeys[i]
       IN {(k :> BaseResponse[k]) @@ r : r \in Deviations(i + 1, budget)}
            \cup (IF budget = 0 THEN {}
                  ELSE {(k :> a) @@ r :
                          r \in Deviations(i + 1, budget - 1), a \in Alternatives(k)})

\* drop the keys marked absent
ObjectOf(r) == JObj([k \in {j \in DOMAIN r : r[j] # Absent} |-> r[k]])

\* response.text: text that is not JSON, JSON that is not an object, or an object
Responses ==
  {[kind |-> "garbage"], [kind |-> "json", v |-> JArr(<< >>)]}
    \cup {[kind |-> "json", v |-> ObjectOf(r)] : r \in Deviations(1, MaxDev)}

DefaultPromptFile == "prompts/prompt_main.md"
ImagePath == "images/iphone.jpeg"

\* what open(prompt_file, "r") finds at the path
PromptFiles ==
  {[kind |-> "missing"], [kind |-> "unreadable"],
   [kind |-> "file", text |-> "Classify the pictured device."],
   [kind |-> "file", text |-> ""]}

Contexts == {"", "Found in a flooded basement"}

DefaultPrompt ==
  "You are an expert E-waste Safety Analyzer. Analyze the image and identify:\n"
  \o "        1. The type of electronic device\n"
  \o "        2. Its condition\n"
  \o "        3. Whether it's safe to shred\n"
  \o "        4. Any hazardous components\n"
  \o "        5. Processing instructions\n"
  \o "        \n"
  \o "        Focus on safety and provide clear guidance."

(* ------------------------------- state --------------------------------- *)

VARIABLES
  caller,        \* "main": the script's run; "direct": a call of analyze_ewaste
  args,          \* the arguments of the call of analyze_ewaste
  prompt_fs,     \* what the file system holds at args.prompt_file
  pc,            \* the statement to run next
  call,          \* the call of analyze_ewaste: "none", "active", "returned", "raised"
  prompt,        \* local prompt of analyze_ewaste
  uploads,       \* the calls of genai.upload_file made
  requests,      \* the generate_content requests issued, in order
  response,      \* response.text
  result_dict,   \* local result_dict of analyze_ewaste
  analysis,      \* the record analyze_ewaste returned
  exc,           \* the exception raised and not yet handled, or the last one handled
  report,        \* local report of the main block
  clock,         \* the last value datetime.now() returned
  timestamp,     \* local timestamp of the main block
  txt_file,      \* the .txt report on disk
  json_file,     \* the .json artifact on disk
  printed,       \* standard output, a sequence of lines
  steps,         \* the steps executed so far, in order
  failed         \* the step that raised, "none" while none has

vars == << caller, args, prompt_fs, pc, call, prompt, uploads, requests, response,
           result_dict, analysis, exc, report, clock, timestamp, txt_file,
           json_file, printed, steps, failed >>

Unset == [t |-> "unset"]
NoFile == [state |-> "absent"]

Init ==
  /\ caller \in {"main", "direct"}
  /\ prompt_fs \in PromptFiles
  /\ args \in [image_file : {ImagePath},
               prompt_file : {DefaultPromptFile},
               additional_context : IF caller = "main" THEN {""} ELSE Contexts]
  /\ pc = "start"
  /\ call = "none"
  /\ prompt = Unset
  /\ uploads = 0
  /\ requests = << >>
  /\ response = [kind |-> "none"]
  /\ result_dict = Unset
  /\ analysis = Unset
  /\ exc = "none"
  /\ report = << >>
  /\ clock = 1
  /\ timestamp = 0
  /\ txt_file = NoFile
  /\ json_file = NoFile
  /\ printed = << >>
  /\ steps = << >>
  /\ failed = "none"

\* where control goes when analyze_ewaste ends
AfterCall(outcome) ==
  IF caller = "main" THEN (IF outcome = "returned" THEN "render" ELSE "except")
  ELSE "done"

\* (variant) the handler raises a new generic exception
analyze_except_generic(e) ==
  [call |-> "raised", exc |-> "Exception",
   printed |-> << "Error analyzing image: " \o e >>]

\* except Exception as e: print(...); raise
analyze_except(e) ==
  [call |-> "raised", exc |-> e,
   printed |-> << "Error analyzing image: " \o e >>]

\* a failure inside the second try block of analyze_ewaste
FailAnalysis(e) ==
  LET h == analyze_except(e)
  IN /\ call' = h.call
     /\ exc' = h.exc
     /\ printed' = printed \o h.printed
     /\ pc' = AfterCall(h.call)

\* if additional_context: prompt += ...
WithContext(text, ctx) ==
  IF ctx # "" THEN text \o "\n\nAdditional context: " \o ctx ELSE text

\* (variant) the fallback is an empty prompt
FallbackPromptEmpty == ""

\* the prompt the except FileNotFoundError branch assigns
FallbackPrompt == DefaultPrompt

(* ------------------------------ actions -------------------------------- *)

\* __main__: print("Analyzing e-waste image..."), then the call; or a direct call
Call ==
  /\ pc = "start"
  /\ pc' = "resolve"
  /\ call' = "active"
  /\ printed' = IF caller = "main" THEN printed \o << "Analyzing e-waste image..." >>
                ELSE printed
  /\ UNCHANGED << caller, args, prompt_fs, prompt, uploads, requests, response,
                  result_dict, analysis, exc, report, clock, timestamp, txt_file,
                  json_file, steps, failed >>

\* the prompt file is read; the context is added when there is one
ReadPrompt ==
  /\ pc = "resolve"
  /\ prompt_fs.kind = "file"
  /\ prompt' = PStr(WithContext(prompt_fs.text, args.additional_context))
  /\ pc' = "upload"
  /\ steps' = Append(steps, "resolve")
  /\ UNCHANGED << caller, args, prompt_fs, call, uploads, requests, response,
                  result_dict, analysis, exc, report, clock, timestamp, txt_file,
                  json_file, printed, failed >>

\* open raises FileNotFoundError: a warning, and the built-in prompt
PromptNotFound ==
  /\ pc = "resolve"
  /\ prompt_fs.kind = "missing"
  /\ printed' = printed \o << "Warning: Prompt file '" \o args.prompt_file
                                \o "' not found. Using default prompt." >>
  /\ prompt' = PStr(FallbackPrompt)
  /\ pc' = "upload"
  /\ steps' = Append(steps, "resolve")
  /\ UNCHANGED << caller, args, prompt_fs, call, uploads, requests, response,
                  result_dict, analysis, exc, report, clock, timestamp, txt_file,
                  json_file, failed >>

\* open raises another error: no handler in analyze_ewaste catches it
PromptUnreadable ==
  /\ pc = "resolve"
  /\ prompt_fs.kind = "unreadable"
  /\ call' = "raised"
  /\ exc' = "PermissionError"
  /\ pc' = AfterCall("raised")
  /\ steps' = Append(steps, "resolve")
  /\ failed' = "resolve"
  /\ UNCHANGED << caller, args, prompt_fs, prompt, uploads, requests, response,
                  result_dict, analysis, report, clock, timestamp, txt_file,
                  json_file, printed >>

\* genai.upload_file(image_file) returns the uploaded image
UploadFile ==
  /\ pc = "upload"
  /\ uploads' = uploads + 1
  /\ pc' = "generate"
  /\ steps' = Append(steps, "upload")
  /\ UNCHANGED << caller, args, prompt_fs, call, prompt, requests, response,
                  result_dict, analysis, exc, report, clock, timestamp, txt_file,
                  json_file, printed, failed >>

\* genai.upload_file(image_file) raises
UploadFails ==
  /\ pc = "upload"
  /\ uploads' = uploads + 1
  /\ steps' = Append(steps, "upload")
  /\ FailAnalysis("UploadError")
  /\ failed' = "upload"
  /\ UNCHANGED << caller, args, prompt_fs, prompt, requests, response,
                  result_dict, analysis, report, clock, timestamp, txt_file,
                  json_file >>

\* model.generate_content([prompt, image], generation_config=...) is sent
GenerateContent ==
  /\ pc = "generate"
  /\ requests' = Append(requests, [prompt |-> prompt.s, image |-> args.image_file,
                                   response_mime_type |-> "application/json",
                                   response_schema |-> create_analysis_schema])
  /\ pc' = "waiting"
  /\ steps' = Append(steps, "generate")
  /\ UNCHANGED << caller, args, prompt_fs, call, prompt, uploads, response,
                  result_dict, analysis, exc, report, clock, timestamp, txt_file,
                  json_file, printed, failed >>

\* the remote service answers
RemoteReturns ==
  /\ pc = "waiting"
  /\ \E r \in Responses : response' = r
  /\ pc' = "parse"
  /\ steps' = Append(steps, "response")
  /\ UNCHANGED << caller, args, prompt_fs, call, prompt, uploads, requests,
                  result_dict, analysis, exc, report, clock, timestamp, txt_file,
                  json_file, printed, failed >>

\* the client raises (network, auth, quota, timeout)
RemoteRaises ==
  /\ pc = "waiting"
  /\ FailAnalysis("GenerateError")
  /\ failed' = "generate"
  /\ UNCHANGED << caller, args, prompt_fs, prompt, uploads, requests, response,
                  result_dict, analysis, report, clock, timestamp, txt_file,
                  json_file, steps >>

\* result_dict = json.loads(response.text)
ParseResponse ==
  /\ pc = "parse"
  /\ response.kind = "json"
  /\ result_dict' = response.v
  /\ pc' = "construct"
  /\ steps' = Append(steps, "parse")
  /\ UNCHANGED << caller, args, prompt_fs, call, prompt, uploads, requests,
                  response, analysis, exc, report, clock, timestamp, txt_file,
                  json_file, printed, failed >>

\* json.loads raises
ParseFails ==
  /\ pc = "parse"
  /\ response.kind = "garbage"
  /\ steps' = Append(steps, "parse")
  /\ FailAnalysis("JSONDecodeError")
  /\ failed' = "parse"
  /\ UNCHANGED << caller, args, prompt_fs, prompt, uploads, requests, response,
                  result_dict, analysis, report, clock, timestamp, txt_file,
                  json_file >>

\* analysis = EWasteAnalysis(**result_dict); return analysis
ConstructRecord ==
  /\ pc = "construct"
  /\ ValidateModel("EWasteAnalysis", result_dict).ok
  /\ analysis' = ValidateModel("EWasteAnalysis", result_dict).val
  /\ call' = "returned"
  /\ pc' = AfterCall("returned")
  /\ steps' = Append(steps, "construct")
  /\ UNCHANGED << caller, args, prompt_fs, prompt, uploads, requests, response,
                  result_dict, exc, report, clock, timestamp, txt_file,
                  json_file, printed, failed >>

\* ** of a value that is not a mapping, or a validation error
ConstructFails ==
  /\ pc = "construct"
  /\ ~ ValidateModel("EWasteAnalysis", result_dict).ok
  /\ steps' = Append(steps, "construct")
  /\ FailAnalysis(IF result_dict.t # "obj" THEN "TypeError" ELSE "ValidationError")
  /\ failed' = "construct"
  /\ UNCHANGED << caller, args, prompt_fs, prompt, uploads, requests, response,
                  result_dict, analysis, report, clock, timestamp, txt_file,
                  json_file >>

\* (variant) the artifact is saved before the report
MainStepAfterJsonFirst(step) ==
  CASE step = "render" -> "save_json"
    [] step = "save_json" -> "save_txt"
    [] step = "save_txt" -> "done"

\* the order of the statements of the main block after the call
MainStepAfter(step) ==
  CASE step = "render" -> "save_txt"
    [] step = "save_txt" -> "save_json"
    [] step = "save_json" -> "done"

ReportName(ts) == "ewaste_report_" \o ToString(ts) \o ".txt"
JsonName(ts) == "ewaste_analysis_" \o ToString(ts) \o ".json"

\* report = generate_processing_report(analysis); print(report)
Render ==
  /\ pc = "render"
  /\ \E now \in clock..MaxClock, fmt \in EnumFormats :
       /\ clock' = now
       /\ report' = generate_processing_report(analysis, now, fmt)
  /\ printed' = printed \o report'
  /\ pc' = MainStepAfter("render")
  /\ steps' = Append(steps, "render")
  /\ UNCHANGED << caller, args, prompt_fs, call, prompt, uploads, requests,
                  response, result_dict, analysis, exc, timestamp, txt_file,
                  json_file, failed >>

\* timestamp = ...; with open(report_filename, "w") as f: f.write(report)
SaveReport ==
  /\ pc = "save_txt"
  /\ \E now \in clock..MaxClock :
       /\ clock' = now
       /\ timestamp' = now
       /\ txt_file' = [state |-> "written", name |-> ReportName(now),
                       content |-> report]
       /\ printed' = printed \o << "Report saved to " \o ReportName(now) >>
  /\ pc' = MainStepAfter("save_txt")
  /\ steps' = Append(steps, "save_txt")
  /\ UNCHANGED << caller, args, prompt_fs, call, prompt, uploads, requests,
                  response, result_dict, analysis, exc, report, json_file, failed >>

\* open raises and no file is created, or write raises and the file is left
\* created but incomplete
SaveReportFails ==
  /\ pc = "save_txt"
  /\ \E now \in clock..MaxClock, created \in BOOLEAN :
       /\ clock' = now
       /\ timestamp' = now
       /\ txt_file' = IF created THEN [state |-> "partial", name |-> ReportName(now)]
                      ELSE txt_file
  /\ exc' = "OSError"
  /\ failed' = "save_txt"
  /\ pc' = "except"
  /\ steps' = Append(steps, "save_txt")
  /\ UNCHANGED << caller, args, prompt_fs, call, prompt, uploads, requests,
                  response, result_dict, analysis, report, json_file, printed >>

\* with open(json_filename, "w") as f: json.dump(analysis.dict(), f, indent=2)
SaveJson ==
  /\ pc = "save_json"
  /\ json_file' = [state |-> "written", name |-> JsonName(timestamp),
                   content |-> json_dump(model_dict(analysis))]
  /\ printed' = printed \o << "JSON data saved to " \o JsonName(timestamp) >>
  /\ pc' = MainStepAfter("save_json")
  /\ steps' = Append(steps, "save_json")
  /\ UNCHANGED << caller, args, prompt_fs, call, prompt, uploads, requests,
                  response, result_dict, analysis, exc, report, clock, timestamp,
                  txt_file, failed >>

\* open raises and no file is created, or a write of json.dump raises and the
\* file is left created but incomplete
SaveJsonFails ==
  /\ pc = "save_json"
  /\ \E created \in BOOLEAN :
       json_file' = IF created THEN [state |-> "partial", name |-> JsonName(timestamp)]
                    ELSE json_file
  /\ exc' = "OSError"
  /\ failed' = "save_json"
  /\ pc' = "except"
  /\ steps' = Append(steps, "save_json")
  /\ UNCHANGED << caller, args, prompt_fs, call, prompt, uploads, requests,
                  response, result_dict, analysis, report, clock, timestamp,
                  txt_file, printed >>

\* except Exception as e: print(f"Error: {e}")
MainExcept ==
  /\ pc = "except"
  /\ printed' = printed \o << "Error: " \o exc >>
  /\ pc' = "done"
  /\ UNCHANGED << caller, args, prompt_fs, call, prompt, uploads, requests,
                  response, result_dict, analysis, exc, report, clock, timestamp,
                  txt_file, json_file, steps, failed >>

Next ==
  \/ Call
  \/ ReadPrompt
  \/ PromptNotFound
  \/ PromptUnreadable
  \/ UploadFile
  \/ UploadFails
  \/ GenerateContent
  \/ RemoteReturns
  \/ RemoteRaises
  \/ ParseResponse
  \/ ParseFails
  \/ ConstructRecord
  \/ ConstructFails
  \/ Render
  \/ SaveReport
  \/ SaveReportFails
  \/ SaveJson
  \/ SaveJsonFails
  \/ MainExcept

Spec == Init /\ [][Next]_vars

\* the script is one thread that runs each statement to its end, and the
\* remote call returns or raises
FairSpec == Spec /\ WF_vars(Next)

(* ------------------------------ claims --------------------------------- *)

AnalysisSteps == {"upload", "generate", "parse", "construct"}

RaisedBy(step) ==
  CASE step = "upload" -> {"UploadError"}
    [] step = "generate" -> {"GenerateError"}
    [] step = "parse" -> {"JSONDecodeError"}
    [] step = "construct" -> {"TypeError", "ValidationError"}

\* C1: when the upload, the generate request, the JSON parse or the record
\* construction fails, the call of analyze_ewaste ends by raising that
\* failure: no record is returned, the failing step is the last step of the
\* run, and upload and generate are each issued at most once.
C1_FailureIsRaisedOnce ==
  /\ uploads <= 1
  /\ Len(requests) <= 1
  /\ failed \in AnalysisSteps =>
       /\ call = "raised"
       /\ exc \in RaisedBy(failed)
       /\ analysis = Unset
       /\ report = << >>
       /\ steps[Len(steps)] = failed

C1_Witness ==
  /\ failed = "parse"
  /\ call = "raised"
  /\ uploads = 1
  /\ Len(requests) = 1

ErrorPrinted == printed # << >> /\ printed[Len(printed)] = "Error: " \o exc

\* C2 as stated: in a terminal state of the top-level run a failure has been
\* caught and printed and neither file has been written, so that either both
\* files were written or neither was.
C2_NoPartialOutput ==
  (caller = "main" /\ pc = "done") =>
    /\ failed # "none" => (ErrorPrinted /\ txt_file = NoFile /\ json_file = NoFile)
    /\ (txt_file = NoFile) <=> (json_file = NoFile)

\* C2 amended: every failure of the top-level run is caught and printed.  A
\* failure of the analysis leaves no file.  A failure while saving the report
\* leaves no artifact and the report absent or incomplete.  A failure while
\* saving the artifact leaves the complete report and the artifact absent or
\* incomplete.  The artifact is created only after the report is complete.
C2_OutputUpToFailure ==
  /\ json_file # NoFile => txt_file.state = "written"
  /\ (caller = "main" /\ pc = "done") =>
       /\ failed # "none" <=> ErrorPrinted
       /\ failed \in AnalysisSteps \cup {"resolve"} =>
            (txt_file = NoFile /\ json_file = NoFile)
       /\ failed = "save_txt" =>
            (txt_file.state \in {"absent", "partial"} /\ json_file = NoFile)
       /\ failed = "save_json" =>
            (txt_file.state = "written" /\ json_file.state \in {"absent", "partial"})
       /\ failed = "none" =>
            (txt_file.state = "written" /\ json_file.state = "written")

C2_Witness ==
  /\ caller = "main"
  /\ pc = "done"
  /\ failed = "save_json"
  /\ txt_file.state = "written"
  /\ ErrorPrinted

\* C3: when the prompt path names no file, prompt resolution raises nothing,
\* the resolved prompt is exactly the built-in default text, and the call
\* goes on to the remote request with that prompt.
C3_MissingPromptFallsBack ==
  (prompt_fs.kind = "missing" /\ pc \notin {"start", "resolve"}) =>
    /\ failed # "resolve"
    /\ prompt = PStr(DefaultPrompt)
    /\ uploads = 1 \/ pc = "upload"
    /\ requests # << >> => requests[1].prompt = DefaultPrompt

C3_Witness ==
  /\ prompt_fs.kind = "missing"
  /\ args.additional_context # ""
  /\ Len(requests) = 1
  /\ pc = "waiting"

\* the text prompt resolution yields before any context is added
ResolvedText == IF prompt_fs.kind = "file" THEN prompt_fs.text ELSE DefaultPrompt

\* C4: the prompt submitted to the remote model is the resolved prompt text
\* with a non-empty additional_context appended, from the prompt file and
\* from the built-in default alike; with an empty context it is the resolved
\* prompt unchanged.
C4_ContextAppended ==
  requests # << >> =>
    requests[1].prompt =
      IF args.additional_context # ""
        THEN ResolvedText \o "\n\nAdditional context: " \o args.additional_context
        ELSE ResolvedText

EnumProperties ==
  [object_type |-> ObjectCategory, condition |-> ConditionStatus,
   shred_safety |-> ShredSafety, primary_processing |-> ProcessingMethod]

\* C5: in the schema sent with the request, the enum list of object_type,
\* condition, shred_safety and primary_processing is exactly the list of
\* member values of its enumeration, and no other property has an enum.
C5_SchemaEnumsAreMemberValues ==
  requests # << >> =>
    LET props == requests[1].response_schema.properties
        nested == props.hazardous_components.properties
    IN /\ DOMAIN EnumProperties \subseteq DOMAIN props
       /\ \A p \in DOMAIN EnumProperties :
            /\ "enum" \in DOMAIN props[p]
            /\ Len(props[p].enum) = Len(EnumProperties[p])
            /\ \A i \in DOMAIN EnumProperties[p] :
                 props[p].enum[i] = EnumProperties[p][i].value
       /\ \A p \in DOMAIN props \ DOMAIN EnumProperties : "enum" \notin DOMAIN props[p]
       /\ \A p \in DOMAIN nested : "enum" \notin DOMAIN nested[p]

C5_Witness ==
  /\ Len(requests) = 1
  /\ Len(requests[1].response_schema.properties.object_type.enum) = 36
  /\ pc = "waiting"

\* C6: the schema's property names are the model's field names, its required
\* lists are the model's fields without a default (top level and within
\* hazardous_components), and an object the schema accepts is accepted by
\* record construction.
C6_SchemaMatchesModel ==
  requests # << >> =>
    LET sch == requests[1].response_schema
        haz == sch.properties.hazardous_components
    IN /\ DOMAIN sch.properties = FieldNames(EWasteAnalysis)
       /\ DOMAIN haz.properties = FieldNames(HazardousComponents)
       /\ SeqToSet(sch.required) = RequiredFields(EWasteAnalysis)
       /\ SeqToSet(haz.required) = RequiredFields(HazardousComponents)
       /\ (result_dict # Unset /\ pc # "construct" /\ SchemaAccepts(sch, result_dict)) =>
            (call = "returned" /\ analysis # Unset /\ failed # "construct")

C6_Witness ==
  /\ result_dict # Unset
  /\ SchemaAccepts(requests[1].response_schema, result_dict)
  /\ "extra" \in DOMAIN result_dict.o
  /\ call = "returned"

RequiredTop ==
  {"object_type", "condition", "shred_safety", "primary_processing",
   "processing_notes", "hazardous_components", "disposal_category",
   "observations", "confidence_score"}
RequiredFlags ==
  {"has_battery", "has_mercury", "has_lead", "has_capacitors", "has_toner",
   "has_data_storage"}
OptionalTop == {"brand", "model", "safety_notes", "preprocessing_steps"}

\* the object omits nothing but optional fields and is BaseResponse elsewhere
OmitsOnlyOptional(d) ==
  /\ d.t = "obj"
  /\ RequiredTop \subseteq DOMAIN d.o
  /\ DOMAIN d.o \subseteq RequiredTop \cup OptionalTop
  /\ OptionalTop \ DOMAIN d.o # {}
  /\ \A k \in DOMAIN d.o : d.o[k] = BaseResponse[k]

\* C7: constructing the record from an object that omits a required field
\* (top level, or a flag inside hazardous_components) fails and yields no
\* record; omitting only brand, model, safety_notes or preprocessing_steps
\* does not fail.
C7_RequiredFieldsEnforced ==
  (result_dict # Unset /\ result_dict.t = "obj" /\ pc # "construct") =>
    /\ (\E k \in RequiredTop : k \notin DOMAIN result_dict.o) =>
         (failed = "construct" /\ call = "raised" /\ analysis = Unset)
    /\ ( /\ "hazardous_components" \in DOMAIN result_dict.o
         /\ result_dict.o.hazardous_components.t = "obj"
         /\ \E k \in RequiredFlags :
              k \notin DOMAIN result_dict.o.hazardous_components.o ) =>
         (failed = "construct" /\ call = "raised" /\ analysis = Unset)
    /\ OmitsOnlyOptional(result_dict) =>
         (failed # "construct" /\ call = "returned" /\ analysis # Unset)

C7_Witness ==
  /\ result_dict # Unset
  /\ result_dict.t = "obj"
  /\ "confidence_score" \notin DOMAIN result_dict.o
  /\ failed = "construct"
  /\ call = "raised"

RECURSIVE JsonEq(_, _)
\* equality of two JSON values as Python compares the loaded values: 1 == 1.0
JsonEq(a, b) ==
  /\ a.t = b.t
  /\ CASE a.t = "num" -> a.n = b.n
       [] a.t = "arr" -> /\ Len(a.a) = Len(b.a)
                         /\ \A i \in DOMAIN a.a : JsonEq(a.a[i], b.a[i])
       [] a.t = "obj" -> /\ DOMAIN a.o = DOMAIN b.o
                         /\ \A k \in DOMAIN a.o : JsonEq(a.o[k], b.o[k])
       [] OTHER -> a = b

\* an object of the schema's shape: accepted by the schema, with no key the
\* schema does not name
WellFormed(d) ==
  /\ SchemaAccepts(create_analysis_schema, d)
  /\ DOMAIN d.o \subseteq DOMAIN create_analysis_schema.properties
  /\ DOMAIN d.o.hazardous_components.o \subseteq DOMAIN HazardousSchema.properties

\* C8: from a well-formed object that supplies the required fields with valid
\* enum values the record is constructed, and the dict serialized for the
\* .json artifact holds, for each supplied key, the value supplied, and for
\* the omitted optional fields null (brand, model) and the empty list
\* (safety_notes, preprocessing_steps).
C8_FieldsRoundTrip ==
  (result_dict # Unset /\ pc # "construct" /\ WellFormed(result_dict)) =>
    /\ analysis # Unset
    /\ LET out == json_dump(model_dict(analysis))
       IN /\ DOMAIN out.o = RequiredTop \cup OptionalTop
          /\ \A k \in DOMAIN result_dict.o : JsonEq(out.o[k], result_dict.o[k])
          /\ \A k \in {"brand", "model"} \ DOMAIN result_dict.o : out.o[k] = JNull
          /\ \A k \in {"safety_notes", "preprocessing_steps"} \ DOMAIN result_dict.o :
               out.o[k] = JArr(<< >>)
          /\ json_file.state = "written" => json_file.content = out

C8_Witness ==
  /\ result_dict # Unset
  /\ WellFormed(result_dict)
  /\ result_dict.o.confidence_score = JNum(1000, TRUE)
  /\ json_file.state = "written"

HazardLineLabels ==
  [has_battery |-> "Battery", has_mercury |-> "Mercury", has_lead |-> "Lead",
   has_capacitors |-> "Capacitors", has_toner |-> "Toner/Ink",
   has_data_storage |-> "Data Storage"]

CountLines(r, texts) == Cardinality({i \in DOMAIN r : r[i] \in texts})

PositiveLines == {HazardLineLabels[k] \o ": [!] YES" : k \in DOMAIN HazardLineLabels}
NegativeLines == {HazardLineLabels[k] \o ": [ok] No" : k \in DOMAIN HazardLineLabels}

\* C9: the report has exactly six hazard lines, one per flag, each marked
\* positive iff its own flag is true; the positive lines are as many as the
\* true flags.
C9_HazardLinesFollowFlags ==
  report # << >> =>
    LET flags == analysis.f.hazardous_components.f
    IN /\ CountLines(report, PositiveLines \cup NegativeLines) = 6
       /\ \A k \in DOMAIN HazardLineLabels :
            /\ CountLines(report, {HazardLineLabels[k] \o ": [!] YES"})
                 = IF flags[k].b THEN 1 ELSE 0
            /\ CountLines(report, {HazardLineLabels[k] \o ": [ok] No"})
                 = IF flags[k].b THEN 0 ELSE 1
       /\ CountLines(report, PositiveLines)
            = Cardinality({k \in DOMAIN flags : flags[k].b})

C9_Witness ==
  /\ report # << >>
  /\ CountLines(report, PositiveLines) = 1
  /\ CountLines(report, NegativeLines) = 5
  /\ analysis.f.hazardous_components.f.has_battery.b

StepOrder ==
  << "resolve", "upload", "generate", "response", "parse", "construct",
     "render", "save_txt", "save_json" >>

InOrder ==
  /\ Len(steps) <= Len(StepOrder)
  /\ steps = SubSeq(StepOrder, 1, Len(steps))
  /\ requests # << >> => (prompt # Unset /\ requests[1].prompt = prompt.s)
  /\ result_dict # Unset => response.kind = "json"
  /\ analysis # Unset => (result_dict # Unset /\ call = "returned")
  /\ report # << >> => (analysis # Unset /\ caller = "main")
  /\ txt_file # NoFile => report # << >>
  /\ json_file # NoFile => report # << >>
  /\ pc = "done" =>
       \/ caller = "direct"
       \/ json_file.state = "written"
       \/ ErrorPrinted

\* C10: the steps of a run happen in the order resolve prompt, upload,
\* request, response, parse, construct, render, write .txt, write .json, each
\* at most once and none before the ones it depends on, and the run reaches a
\* terminal state.
C10_LinearRunTerminates == []InOrder /\ <>(pc = "done")

C10_Witness ==
  /\ caller = "main"
  /\ pc = "done"
  /\ json_file.state = "written"
  /\ steps = StepOrder

====
